---- MODULE Spec2Model ----
(***************************************************************************)
(* Model of the qword kernel's VFS dispatch layer                          *)
(* (src/root/src/kernel/fd/vfs/vfs.c) and keyboard line discipline         *)
(* (src/root/src/kernel/misc/kbd.c).                                       *)
(*                                                                         *)
(* Specifications:                                                         *)
(*   Spec      the VFS entry points as a state machine: registry, mount    *)
(*             table, handle table, mountpoints_lock, errno                *)
(*   SpecMnt   vfs_get_mountpoint over bounded mount tables and paths      *)
(*   SpecPath  vfs_get_absolute_path over bounded (pwd, path, buffer)      *)
(*   SpecFs    vfs_install_fs over every set of filled slots               *)
(*   SpecSync  vfs_sync called by its worker and by another thread         *)
(*   SpecKbd   kbd_handler and one thread in kbd_read, step by step        *)
(*   SpecIrq   kbd_handler and two threads in kbd_read, step by step       *)
(*   SpecKey   one kbd_handler invocation for every scancode               *)
(*                                                                         *)
(* C strings are modelled as sequences of one-character strings without    *)
(* the terminating NUL; At(s, i) reads byte i (0-based) and yields NUL at  *)
(* the terminator.  Drivers, fd_create, ht_dump and the allocator are      *)
(* outside the module's source: their results are chosen                   *)
(* nondeterministically from small sets.                                   *)
(*                                                                         *)
(* The kernel runs on one CPU.  Threads are preempted at any point, so     *)
(* their steps interleave; kbd_handler runs with interrupts masked, so an  *)
(* invocation is one step, unless it finds a lock held: it then spins,     *)
(* and since the holder cannot run, no further step is taken.              *)
(***************************************************************************)
EXTENDS Integers, Sequences, FiniteSets, TLC

VARIABLES
    filesystems,       \* ht filesystems: driver name -> operation slots (or NoFs)
    mountpoints,       \* ht mountpoints: sequence of mnt_t records (dump order)
    vfs_handles,       \* dynarray vfs_handles: index -> NULL or [refcount, present, data]
    mountpoints_lock,  \* lock_t: 1 = free, 0 = held
    errno,             \* the kernel's errno
    last,              \* what the last VFS entry point did (calls made, return value)
    args,              \* inputs of the function under check (pure-function specifications)
    res,               \* its result
    pc,                \* position of the pure-function specifications
    filesystems_lock,  \* lock_t of the registry: 1 = free, 0 = held
    worker,            \* thread -> its position in vfs_sync_worker or vfs_sync
    kbd_buf,           \* char kbd_buf[KBD_BUF_SIZE], the line being edited
    kbd_buf_i,
    big_buf,           \* char big_buf[BIG_BUF_SIZE], the committed lines
    big_buf_i,
    capslock_active, shift_active, ctrl_active,
    kbd_read_lock,     \* lock_t: 1 = free, 0 = held
    termios_lock,      \* lock_t: 1 = free, 0 = held
    termios,           \* the flags set in termios.c_lflag
    rd,                \* thread -> its position and locals in kbd_read
    irq,               \* what the last kbd_handler invocation did
    keys               \* the scancodes the keyboard has raised so far

syncv == <<filesystems_lock, worker>>

kbdv == <<kbd_buf, kbd_buf_i, big_buf, big_buf_i, capslock_active, shift_active,
          ctrl_active, kbd_read_lock, termios_lock, termios, rd, irq, keys>>

vars == <<filesystems, mountpoints, vfs_handles, mountpoints_lock, errno, last,
          args, res, pc, syncv, kbdv>>

-----------------------------------------------------------------------------
(* Bounds *)

MaxPathLen == 6

\* the keyboard buffers, scaled down from 2048 and 65536 bytes
\* (kbd.c lines 16-17)
KBD_BUF_SIZE == 3
BIG_BUF_SIZE == 3

-----------------------------------------------------------------------------
(* C strings *)

NUL == "NUL"
NULL == "NULL"

Str(n, alphabet) == UNION { [1..k -> alphabet] : k \in 0..n }

At(s, i) == IF i >= 0 /\ i < Len(s) THEN s[i + 1] ELSE NUL

kstrlen(s) == Len(s)

\* number of leading bytes (of at most count) on which a and b agree
RECURSIVE AgreeLen(_, _, _, _)
AgreeLen(a, b, i, count) ==
    IF i < count /\ At(a, i) = At(b, i) THEN AgreeLen(a, b, i + 1, count) ELSE i

\* 0 iff the first count bytes agree (the comparison stops at the first difference)
kstrncmp(a, b, count) == IF AgreeLen(a, b, 0, count) = count THEN 0 ELSE 1

kstrcmp(a, b) == IF a = b THEN 0 ELSE 1

\* the string starting at byte i of s
Tail_(s, i) == SubSeq(s, i + 1, Len(s))

-----------------------------------------------------------------------------
(* vfs_get_mountpoint *)

Matches_noBoundary(path, name) ==
    LET len == kstrlen(name) IN kstrncmp(path, name, len) = 0

\* lines 46-48: the record's name is a prefix ending at a segment boundary,
\* or the record is the root mount
Matches(path, name) ==
    LET len == kstrlen(name) IN
    /\ kstrncmp(path, name, len) = 0
    /\ \/ At(path, len) = "/"
       \/ At(path, len) = NUL
       \/ kstrcmp(name, <<"/">>) = 0

\* the scan of lines 37-54 from record i on: <<guess, guess_size>>, guess = 0 for (size_t)-1
RECURSIVE Scan(_, _, _, _, _)
Scan(path, mnts, i, guess, guess_size) ==
    IF i > Len(mnts) THEN <<guess, guess_size>>
    ELSE LET len == kstrlen(mnts[i].name) IN
         IF Matches(path, mnts[i].name) /\ len > guess_size
         THEN Scan(path, mnts, i + 1, i, len)
         ELSE Scan(path, mnts, i + 1, guess, guess_size)

LocalPath_offByOne(path, guess_size) ==
    LET p == IF guess_size > 0 THEN Tail_(path, guess_size) ELSE path
    IN IF At(p, 0) = NUL THEN <<"/">> ELSE p

\* lines 56-62
LocalPath(path, guess_size) ==
    LET p == IF guess_size > 1 THEN Tail_(path, guess_size) ELSE path
    IN IF At(p, 0) = NUL THEN <<"/">> ELSE p

\* lines 37-73, the snapshot mnts being available: the record found (its index in
\* the snapshot, 0 for NULL) and *local_path
vfs_get_mountpoint(path, mnts) ==
    LET g == Scan(path, mnts, 1, 0, 0) IN
    [ret |-> g[1], local_path |-> LocalPath(path, g[2])]

-----------------------------------------------------------------------------
(* Resolver specification: the inputs are drawn in Init, Resolve applies    *)
(* vfs_get_mountpoint to them.                                              *)

PathChars == {"/", "u", "l"}

AbsPaths(n) == { s \in Str(n, PathChars) : Len(s) > 0 /\ s[1] = "/" }

\* mount targets the mount table is built from
MountTargets ==
    { <<"/">>, <<"/", "u">>, <<"/", "u", "/", "l">>, <<"/", "u", "l">>, <<"/", "l">> }

\* all orders of all sets of distinct targets
RECURSIVE Perms(_)
Perms(S) ==
    IF S = {} THEN { <<>> }
    ELSE UNION { { <<x>> \o p : p \in Perms(S \ {x}) } : x \in S }

MountTables ==
    UNION { { [i \in 1..Len(p) |-> [name |-> p[i], fs |-> "fsA", magic |-> i]]
              : p \in Perms(S) } : S \in SUBSET MountTargets }

NoLast == [op |-> "none", fd |-> -1, calls |-> <<>>, ret |-> 0, added |-> <<>>,
           created |-> <<>>]

\* the registry lock is free and the sync worker is not started
SyncIdle == filesystems_lock = 1 /\ worker = <<>>

\* the last keyboard interrupt: how far the handler got (state), the exit it
\* took (path), the character it decoded and what it echoed
Irq(state, path, c, tty) == [state |-> state, path |-> path, c |-> c, tty |-> tty]
NoIrq == Irq("none", "none", NUL, <<>>)

\* kbd.c lines 19-23 and 62: the static initialisers of the buffers and the
\* lock; termios_lock is free
KbdBuffersBoot ==
    /\ kbd_buf = [i \in 0..(KBD_BUF_SIZE - 1) |-> NUL]
    /\ kbd_buf_i = 0
    /\ big_buf = [i \in 0..(BIG_BUF_SIZE - 1) |-> NUL]
    /\ big_buf_i = 0
    /\ kbd_read_lock = 1
    /\ termios_lock = 1
    /\ irq = NoIrq
    /\ keys = <<>>

\* kbd.c lines 19-27 and 62: the static initialisers
KbdBoot ==
    /\ KbdBuffersBoot
    /\ capslock_active = 0
    /\ shift_active = 0
    /\ ctrl_active = 0

\* no thread reads the keyboard
KbdIdle == KbdBoot /\ termios = {} /\ rd = <<>>

IdleVfs ==
    /\ filesystems = <<>>
    /\ vfs_handles = <<>>
    /\ errno = 0
    /\ last = NoLast
    /\ SyncIdle
    /\ KbdIdle

InitMnt ==
    /\ IdleVfs
    /\ mountpoints \in MountTables
    /\ mountpoints_lock = 1
    /\ args \in [path : AbsPaths(MaxPathLen)]
    /\ res = NULL
    /\ pc = "start"

\* lines 28-74 with the lock and the snapshot
Resolve ==
    /\ pc = "start"
    /\ mountpoints_lock = 1                      \* spinlock_acquire
    /\ \E dumped \in BOOLEAN :                   \* ht_dump: the snapshot or NULL
         IF dumped
         THEN /\ res' = vfs_get_mountpoint(args.path, mountpoints)
              /\ mountpoints_lock' = 1           \* spinlock_release, line 68
              /\ pc' = "done"
         ELSE /\ res' = [ret |-> 0, local_path |-> NULL]
              /\ mountpoints_lock' = 0           \* return NULL at line 35, lock held
              /\ pc' = "nodump"
    /\ UNCHANGED <<filesystems, mountpoints, vfs_handles, errno, last, args, syncv, kbdv>>

NextMnt == Resolve

SpecMnt == InitMnt /\ [][NextMnt]_vars

-----------------------------------------------------------------------------
(* vfs_get_absolute_path *)

\* the output buffer: cell index -> byte
kstrcpy(buf, at, s) ==
    [i \in DOMAIN buf |->
        IF i >= at /\ i < at + Len(s) THEN s[i - at + 1]
        ELSE IF i = at + Len(s) THEN NUL
        ELSE buf[i]]

Poke(buf, i, c) == [buf EXCEPT ![i] = c]

\* the C string held by a buffer: the bytes before the first NUL
RECURSIVE CStrFrom(_, _)
CStrFrom(buf, i) ==
    IF i \notin DOMAIN buf \/ buf[i] = NUL THEN <<>>
    ELSE <<buf[i]>> \o CStrFrom(buf, i + 1)

CStr(buf) == CStrFrom(buf, 0)

\* lines 109 and 114: while (*path_ptr != '/') path_ptr--;
RECURSIVE Rewind(_, _)
Rewind(buf, pp) ==
    IF pp <= 0 \/ buf[pp] = "/" THEN pp ELSE Rewind(buf, pp - 1)

\* lines 110 and 115: if (path_ptr == orig_ptr) path_ptr++;
Popped(buf, pp) == LET q == Rewind(buf, pp) IN IF q = 0 THEN 1 ELSE q

Term_keepSlash(buf, pp) == CStr(Poke(buf, pp, NUL))

\* lines 130-134
Term(buf, pp) ==
    LET q == IF buf[pp - 1] = "/" /\ pp - 1 # 0 THEN pp - 1 ELSE pp
    IN CStr(Poke(buf, q, NUL))

\* lines 97-141: the scanning loop; at = "first_run" enters at the label,
\* at = "loop" at the switch.  path is the input, p the read offset into it,
\* pp the write offset (path_ptr - orig_ptr).
RECURSIVE Scanner(_, _, _, _, _)
Scanner(at, path, p, buf, pp) ==
    LET rest == Tail_(path, p) IN
    IF at = "loop" THEN
        CASE At(path, p) = "/" -> Scanner("first_run", path, p + 1, buf, pp)
          [] At(path, p) = NUL -> Term(buf, pp)
          [] OTHER -> Scanner("loop", path, p + 1, Poke(buf, pp, At(path, p)), pp + 1)
    ELSE
        IF At(path, p) = "/" THEN Scanner("loop", path, p, buf, pp)
        ELSE IF kstrncmp(rest, <<".">>, 2) = 0 \/ kstrncmp(rest, <<".", "/">>, 3) = 0
        THEN Term(buf, pp)
        ELSE IF kstrncmp(rest, <<".", ".">>, 3) = 0
                \/ kstrncmp(rest, <<".", ".", "/">>, 4) = 0
        THEN Term(buf, Popped(buf, pp))
        ELSE IF kstrncmp(rest, <<".", ".", "/">>, 3) = 0
        THEN LET q == Popped(buf, pp)
             IN Scanner("loop", path, p + 2, Poke(buf, q, NUL), q)
        ELSE IF kstrncmp(rest, <<".", "/">>, 2) = 0
        THEN Scanner("loop", path, p + 1, buf, pp)
        ELSE IF pp - 1 # 0 /\ buf[pp - 1] # "/"
        THEN Scanner("loop", path, p, Poke(buf, pp, "/"), pp + 1)
        ELSE Scanner("loop", path, p, buf, pp)

\* lines 78-142: the string left in the buffer; prior is the buffer's content
\* at the call
vfs_get_absolute_path(prior, path, pwd) ==
    IF At(path, 0) = NUL THEN CStr(kstrcpy(prior, 0, pwd))
    ELSE IF At(path, 0) # "/"
    THEN LET buf == kstrcpy(prior, 0, pwd)
         IN Scanner("first_run", path, 0, buf, kstrlen(CStr(buf)))
    ELSE Scanner("first_run", path, 1, Poke(prior, 0, "/"), 1)

-----------------------------------------------------------------------------
(* Normalizer specification *)

MaxPwdLen == 3
MaxInLen == 4

NormChars == {"/", ".", "a"}

BufSize == MaxPwdLen + MaxInLen + 2

\* prior contents of the output buffer: no '/', '/' everywhere, or a single '/'
PriorBufs ==
    { [i \in 0..BufSize - 1 |-> IF i \in S THEN "/" ELSE NUL]
      : S \in { {}, 0..BufSize - 1 } \cup { {k} : k \in 0..BufSize - 1 } }

AbsOver(n, alphabet) == { s \in Str(n, alphabet) : Len(s) > 0 /\ s[1] = "/" }

InitPath ==
    /\ IdleVfs
    /\ mountpoints = <<>>
    /\ mountpoints_lock = 1
    /\ args \in [pwd : AbsOver(MaxPwdLen, NormChars),
                 path : Str(MaxInLen, NormChars),
                 prior : PriorBufs]
    /\ res = NULL
    /\ pc = "start"

Normalize ==
    /\ pc = "start"
    /\ res' = vfs_get_absolute_path(args.prior, args.path, args.pwd)
    /\ pc' = "done"
    /\ UNCHANGED <<filesystems, mountpoints, vfs_handles, mountpoints_lock,
                   errno, last, args, syncv, kbdv>>

NextPath == Normalize

SpecPath == InitPath /\ [][NextPath]_vars

-----------------------------------------------------------------------------
(* Filesystem drivers and the registry *)

Drivers == {"fsA", "fsB"}

\* the function slots of struct fs_t, in order, after name[256]
FsOps == <<"mount", "open", "close", "dup", "read", "write", "lseek", "fstat",
           "readdir", "sync">>

OpNames == { FsOps[k] : k \in DOMAIN FsOps }

ENOSYS == "ENOSYS"

NullFn == [fn |-> "NULL", of |-> "-"]
InvalidFn == [fn |-> "vfs_call_invalid", of |-> "-"]
OwnFn(d, op) == [fn |-> op, of |-> d]

\* a driver struct as handed to vfs_install_fs: the slots in set are its own
\* functions, the others are null
DriverStruct(d, set) == [op \in OpNames |-> IF op \in set THEN OwnFn(d, op) ELSE NullFn]

Patched_skipFirst(slots) ==
    [op \in OpNames |->
        IF slots[op] = NullFn /\ op # FsOps[1] THEN InvalidFn ELSE slots[op]]

\* lines 181-184: every null slot becomes vfs_call_invalid
Patched(slots) ==
    [op \in OpNames |-> IF slots[op] = NullFn THEN InvalidFn ELSE slots[op]]

\* a call through a slot: vfs_call_invalid (lines 172-176) sets errno and
\* returns -1; a driver function returns its own result r
CallSlot(slot, r, e) ==
    IF slot = InvalidFn THEN [fn |-> slot, ret |-> -1, errno |-> ENOSYS]
    ELSE [fn |-> slot, ret |-> r, errno |-> e]

Registered == DOMAIN filesystems

\* ht_add(filesystems, filesystem)
HtAddFs(d, slots) == [x \in Registered \cup {d} |-> IF x = d THEN slots ELSE filesystems[x]]

-----------------------------------------------------------------------------
(* dynarray vfs_handles *)

MaxHandles == 2

HandleIdx == 0..MaxHandles - 1

NoHandle == [used |-> FALSE, refcount |-> 0, present |-> 0, fs |-> "-", intern_fd |-> -1]

NoHandles == [i \in HandleIdx |-> NoHandle]

\* dynarray_getelem: a reference is taken on a present element
dynarray_getelem(h, i) ==
    IF h[i].used /\ h[i].present = 1
    THEN [h EXCEPT ![i].refcount = @ + 1]
    ELSE h

\* dynarray_unref: the element is freed with its last reference
dynarray_unref(h, i) ==
    IF ~h[i].used THEN h
    ELSE IF h[i].refcount - 1 = 0 THEN [h EXCEPT ![i] = NoHandle]
    ELSE [h EXCEPT ![i].refcount = @ - 1]

\* dynarray_remove: the element is no longer present and loses the table's reference
dynarray_remove(h, i) ==
    IF ~h[i].used THEN h
    ELSE IF h[i].refcount - 1 = 0 THEN [h EXCEPT ![i] = NoHandle]
    ELSE [h EXCEPT ![i].refcount = @ - 1, ![i].present = 0]

FreeSlots(h) == { i \in HandleIdx : ~h[i].used }

\* dynarray_add: the index of the new element, -1 when no memory is left (ok = FALSE)
dynarray_add_index(h, ok) ==
    IF ok /\ FreeSlots(h) # {}
    THEN CHOOSE i \in FreeSlots(h) : \A j \in FreeSlots(h) : i <= j
    ELSE -1

dynarray_add(h, ok, fs, intern_fd) ==
    LET i == dynarray_add_index(h, ok) IN
    IF i = -1 THEN h
    ELSE [h EXCEPT ![i] = [used |-> TRUE, refcount |-> 1, present |-> 1,
                           fs |-> fs, intern_fd |-> intern_fd]]

Open(h) == { i \in HandleIdx : h[i].used /\ h[i].present = 1 }

-----------------------------------------------------------------------------
(* VFS entry points *)

\* internal fds a driver hands out, results of its data operations, results
\* of fd_create, mount cookies
InternFds == {4, 5}
DataResults == {-1, 3}
FdCreateResults == {-1, 6}
Magics == {1}

VfsPaths == { <<"/", "l">>, <<"/", "u", "/", "l">> }

\* one driver call: the record the entry point's log keeps
Called(fs, op, arg, c) == [fs |-> fs, op |-> op, arg |-> arg, fn |-> c.fn, ret |-> c.ret]

\* the log of one entry point: the handle it was given, the driver calls it
\* made, its return value, the results of its dynarray_add calls and the
\* intern_fd of the descriptors it handed to fd_create
Log(op, fd, calls, ret, added, created) ==
    [op |-> op, fd |-> fd, calls |-> calls, ret |-> ret, added |-> added,
     created |-> created]

PureIdle == /\ args = NULL /\ res = NULL /\ pc = "vfs"

Init ==
    /\ filesystems = <<>>
    /\ mountpoints = <<>>
    /\ vfs_handles = NoHandles
    /\ mountpoints_lock = 1
    /\ errno = 0
    /\ last = NoLast
    /\ PureIdle
    /\ SyncIdle
    /\ KbdIdle

\* lines 178-187
vfs_install_fs(d, set) ==
    /\ d \notin Registered
    /\ filesystems' = HtAddFs(d, Patched(DriverStruct(d, set)))
    /\ last' = Log("install", -1, <<>>, 0, <<>>, <<>>)
    /\ UNCHANGED <<mountpoints, vfs_handles, mountpoints_lock, errno, args, syncv, kbdv, res, pc>>

\* lines 298-321
mount(target, fs_type) ==
    \E r \in Magics \cup {-1} :
      IF fs_type \notin Registered
      THEN /\ last' = Log("mount", -1, <<>>, -1, <<>>, <<>>)
           /\ UNCHANGED <<filesystems, mountpoints, vfs_handles, mountpoints_lock,
                          errno, args, syncv, kbdv, res, pc>>
      ELSE LET c == CallSlot(filesystems[fs_type]["mount"], r, errno)
               dup == \E i \in DOMAIN mountpoints : mountpoints[i].name = target
           IN /\ errno' = c.errno
              /\ mountpoints' =
                    IF c.ret = -1 \/ dup THEN mountpoints
                    ELSE Append(mountpoints,
                                [name |-> target, fs |-> fs_type, magic |-> c.ret])
              /\ last' = Log("mount", -1, <<Called(fs_type, "mount", 0, c)>>,
                             IF c.ret = -1 \/ dup THEN -1 ELSE 0, <<>>, <<>>)
              /\ UNCHANGED <<filesystems, vfs_handles, mountpoints_lock, args, syncv, kbdv, res, pc>>

Dispatch_noUnref(op, fd) ==
    /\ fd \in Open(vfs_handles)
    /\ \E r \in DataResults :
         LET h1 == dynarray_getelem(vfs_handles, fd)
             c == CallSlot(filesystems[h1[fd].fs][op], r, errno)
         IN /\ vfs_handles' = h1
            /\ errno' = c.errno
            /\ last' = Log(op, fd, <<Called(h1[fd].fs, op, h1[fd].intern_fd, c)>>,
                           c.ret, <<>>, <<>>)
    /\ UNCHANGED <<filesystems, mountpoints, mountpoints_lock, args, syncv, kbdv, res, pc>>

\* the template of lines 204-226 and 238-252: take a reference, call the
\* driver with the handle's intern_fd, release the reference, return its result
Dispatch(op, fd) ==
    /\ fd \in Open(vfs_handles)
    /\ \E r \in DataResults :
         LET h1 == dynarray_getelem(vfs_handles, fd)
             c == CallSlot(filesystems[h1[fd].fs][op], r, errno)
         IN /\ vfs_handles' = dynarray_unref(h1, fd)
            /\ errno' = c.errno
            /\ last' = Log(op, fd, <<Called(h1[fd].fs, op, h1[fd].intern_fd, c)>>,
                           c.ret, <<>>, <<>>)
    /\ UNCHANGED <<filesystems, mountpoints, mountpoints_lock, args, syncv, kbdv, res, pc>>

vfs_readdir(fd) == Dispatch("readdir", fd)
vfs_read(fd) == Dispatch("read", fd)
vfs_write(fd) == Dispatch("write", fd)
vfs_lseek(fd) == Dispatch("lseek", fd)
vfs_fstat(fd) == Dispatch("fstat", fd)

\* lines 189-202
vfs_dup(fd) ==
    /\ fd \in Open(vfs_handles)
    /\ \E r \in InternFds \cup {-1} :
         LET h1 == dynarray_getelem(vfs_handles, fd)
             call == Called(h1[fd].fs, "dup", h1[fd].intern_fd,
                            CallSlot(filesystems[h1[fd].fs]["dup"], r, errno))
         IN /\ errno' = CallSlot(filesystems[h1[fd].fs]["dup"], r, errno).errno
            /\ IF call.ret = -1
               THEN /\ vfs_handles' = dynarray_unref(h1, fd)
                    /\ last' = Log("dup", fd, <<call>>, -1, <<>>, <<>>)
               ELSE \E ok \in BOOLEAN :
                      \* dynarray_add(..., fd_ptr) copies *fd_ptr, the
                      \* original handle's record
                      LET new == dynarray_add_index(h1, ok)
                          h2 == dynarray_add(h1, ok, h1[fd].fs, h1[fd].intern_fd)
                      IN /\ vfs_handles' = dynarray_unref(h2, fd)
                         /\ last' = Log("dup", fd, <<call>>, new, <<new>>, <<>>)
    /\ UNCHANGED <<filesystems, mountpoints, mountpoints_lock, args, syncv, kbdv, res, pc>>

\* lines 228-236
vfs_close(fd) ==
    /\ fd \in Open(vfs_handles)
    /\ \E r \in {0, -1} :
         LET h1 == dynarray_getelem(vfs_handles, fd)
             fd_copy == h1[fd]
             h2 == dynarray_unref(h1, fd)
             h3 == dynarray_remove(h2, fd)
             c == CallSlot(filesystems[fd_copy.fs]["close"], r, errno)
         IN /\ vfs_handles' = h3
            /\ errno' = c.errno
            /\ last' = Log("close", fd,
                           <<Called(fd_copy.fs, "close", fd_copy.intern_fd, c)>>,
                           IF c.ret # 0 THEN -1 ELSE 0, <<>>, <<>>)
    /\ UNCHANGED <<filesystems, mountpoints, mountpoints_lock, args, syncv, kbdv, res, pc>>

\* lines 276-290: the mountpoint found, the driver's open is called
OpenAt(mnt, local_path) ==
    \E r \in InternFds \cup {-1} :
      LET c == CallSlot(filesystems[mnt.fs]["open"], r, errno)
          call == Called(mnt.fs, "open", [path |-> local_path, magic |-> mnt.magic], c)
      IN /\ errno' = c.errno
         /\ IF c.ret = -1
            THEN /\ last' = Log("open", -1, <<call>>, -1, <<>>, <<>>)
                 /\ UNCHANGED vfs_handles
            ELSE \E ok \in BOOLEAN, created \in FdCreateResults :
                   \* the result of dynarray_add is not examined: fd_create
                   \* is handed vfs_fd as it is
                   LET vfs_fd == dynarray_add_index(vfs_handles, ok) IN
                   /\ vfs_handles' = dynarray_add(vfs_handles, ok, mnt.fs, c.ret)
                   /\ last' = Log("open", -1, <<call>>, created, <<vfs_fd>>, <<vfs_fd>>)

\* lines 264-291
open(path) ==
    /\ mountpoints_lock = 1                         \* spinlock_acquire, line 31
    /\ \/ \* ht_dump gave NULL: line 35 returns with the lock held
          /\ mountpoints_lock' = 0
          /\ last' = Log("open", -1, <<>>, -1, <<>>, <<>>)
          /\ UNCHANGED <<vfs_handles, errno>>
       \/ LET m == vfs_get_mountpoint(path, mountpoints) IN
          /\ mountpoints_lock' = 1                  \* spinlock_release, line 68
          /\ IF m.ret = 0
             THEN /\ last' = Log("open", -1, <<>>, -1, <<>>, <<>>)
                  /\ UNCHANGED <<vfs_handles, errno>>
             ELSE OpenAt(mountpoints[m.ret], m.local_path)
    /\ UNCHANGED <<filesystems, mountpoints, args, syncv, kbdv, res, pc>>

\* what the kernel registers and mounts: fsA is a complete driver, fsB is
\* complete or implements mount, open and close only
BootDrivers ==
    { <<"fsA", OpNames>>, <<"fsB", OpNames>>, <<"fsB", {"mount", "open", "close"}>> }
BootMounts == { <<<<"/">>, "fsA">>, <<<<"/", "u">>, "fsB">> }

Next ==
    \/ \E b \in BootDrivers : vfs_install_fs(b[1], b[2])
    \/ \E b \in BootMounts : mount(b[1], b[2])
    \/ \E p \in VfsPaths : open(p)
    \/ \E fd \in HandleIdx : vfs_read(fd)
    \/ \E fd \in HandleIdx : vfs_write(fd)
    \/ \E fd \in HandleIdx : vfs_lseek(fd)
    \/ \E fd \in HandleIdx : vfs_fstat(fd)
    \/ \E fd \in HandleIdx : vfs_readdir(fd)
    \/ \E fd \in HandleIdx : vfs_dup(fd)
    \/ \E fd \in HandleIdx : vfs_close(fd)

Spec == Init /\ [][Next]_vars

-----------------------------------------------------------------------------
(* Registry specification: a driver struct with any set of slots filled is  *)
(* drawn in Init, registered, and its operations are invoked.               *)

InitFs ==
    /\ IdleVfs
    /\ mountpoints = <<>>
    /\ mountpoints_lock = 1
    /\ args \in [d : Drivers, set : SUBSET OpNames]
    /\ res = NULL
    /\ pc = "fs"

\* a call fs->op(...) through a registered driver's slot, as at lines 192-249
InvokeSlot(d, op) ==
    /\ d \in Registered
    /\ \E r \in DataResults :
         LET c == CallSlot(filesystems[d][op], r, errno) IN
         /\ errno' = c.errno
         /\ last' = Log("invoke", -1, <<Called(d, op, 0, c)>>, c.ret, <<>>, <<>>)
    /\ UNCHANGED <<filesystems, mountpoints, vfs_handles, mountpoints_lock,
                   args, syncv, kbdv, res, pc>>

NextFs ==
    \/ vfs_install_fs(args.d, args.set)
    \/ \E op \in OpNames : InvokeSlot(args.d, op)

SpecFs == InitFs /\ [][NextFs]_vars

-----------------------------------------------------------------------------
(* vfs_sync and its worker thread, lines 144-170 *)

\* lines 153-154: fs[i]->sync() for each driver of the snapshot, in its order
SyncCalls(order) ==
    [k \in 1..Len(order) |->
        Called(order[k], "sync", 0, CallSlot(filesystems[order[k]]["sync"], 0, errno))]

\* errno after the calls: vfs_call_invalid sets it
SyncErrno(order) ==
    IF \E k \in 1..Len(order) : filesystems[order[k]]["sync"] = InvalidFn
    THEN ENOSYS ELSE errno

SyncFrame == UNCHANGED <<filesystems, mountpoints, vfs_handles, mountpoints_lock,
                         args, res, pc, kbdv>>

\* where a thread is once vfs_sync has returned: the worker in yield(2000),
\* another caller outside
Returned(t) == IF t = "worker" THEN "yield" ELSE "idle"

\* line 147: spinlock_acquire(&filesystems_lock), spinning while it is held
sync_acquire(t) ==
    /\ worker[t] = "l147"
    /\ filesystems_lock = 1
    /\ filesystems_lock' = 0
    /\ worker' = [worker EXCEPT ![t] = "l149"]
    /\ UNCHANGED <<errno, last>>
    /\ SyncFrame

\* lines 149-160: the snapshot, the calls, the release
sync_snapshot(t) ==
    /\ worker[t] = "l149"
    /\ \/ \* lines 150-151: ht_dump returned NULL
          /\ last' = Log("sync", -1, <<>>, 0, <<>>, <<>>)
          /\ UNCHANGED <<filesystems_lock, errno>>
       \/ \E order \in Perms(Registered) :
          /\ filesystems_lock' = 1             \* line 158
          /\ errno' = SyncErrno(order)
          /\ last' = Log("sync", -1, SyncCalls(order), 0, <<>>, <<>>)
    /\ worker' = [worker EXCEPT ![t] = Returned(t)]
    /\ SyncFrame

\* lines 144-161
vfs_sync(t) == sync_acquire(t) \/ sync_snapshot(t)

\* a thread other than the worker calls vfs_sync
sync(t) ==
    /\ worker[t] = "idle"
    /\ worker' = [worker EXCEPT ![t] = "l147"]
    /\ UNCHANGED <<errno, last, filesystems_lock>>
    /\ SyncFrame

\* lines 163-170: for (;;) { yield(2000); vfs_sync(); }
vfs_sync_worker ==
    \/ /\ worker["worker"] = "yield"
       /\ worker' = [worker EXCEPT !["worker"] = "l147"]
       /\ UNCHANGED <<errno, last, filesystems_lock>>
       /\ SyncFrame
    \/ vfs_sync("worker")

InitSync ==
    /\ filesystems = <<>>
    /\ mountpoints = <<>>
    /\ vfs_handles = <<>>
    /\ mountpoints_lock = 1
    /\ errno = 0
    /\ last = NoLast
    /\ args = NULL
    /\ res = NULL
    /\ pc = "sync"
    /\ filesystems_lock = 1
    /\ worker = [t \in {"worker", "sys"} |-> Returned(t)]
    /\ KbdIdle

NextSync ==
    \/ \E b \in BootDrivers : vfs_install_fs(b[1], b[2])
    \/ sync("sys")
    \/ vfs_sync("sys")
    \/ vfs_sync_worker

SpecSync == InitSync /\ [][NextSync]_vars

-----------------------------------------------------------------------------
(* Keyboard line discipline (src/root/src/kernel/misc/kbd.c).  Characters are *)
(* one-character strings and "GRAVE" is the backquote; NUL is '\0', "BS" is   *)
(* '\b', "TAB" is '\t' and "NL" is '\n'.  Arrays are functions on 0..size-1, *)
(* as in C.                                                                 *)

MAX_CODE == 87
CAPSLOCK == 58
RIGHT_SHIFT == 54
LEFT_SHIFT == 42
RIGHT_SHIFT_REL == 182
LEFT_SHIFT_REL == 170
LEFT_CTRL == 29
LEFT_CTRL_REL == 157

\* lines 29-55: the four scancode tables; entry b + 1 of a sequence is
\* element [b] of the C array
ascii_capslock ==
    << NUL, "?", "1", "2", "3", "4", "5", "6", "7", "8", "9", "0", "-", "=", "BS", "TAB",
       "Q", "W", "E", "R", "T", "Y", "U", "I", "O", "P", "[", "]", "NL", NUL, "A", "S",
       "D", "F", "G", "H", "J", "K", "L", ";", "'", "GRAVE", NUL, "\\", "Z", "X", "C", "V",
       "B", "N", "M", ",", ".", "/", NUL, NUL, NUL, " " >>

ascii_shift ==
    << NUL, "?", "!", "@", "#", "$", "%", "^", "&", "*", "(", ")", "_", "+", "BS", "TAB",
       "Q", "W", "E", "R", "T", "Y", "U", "I", "O", "P", "{", "}", "NL", NUL, "A", "S",
       "D", "F", "G", "H", "J", "K", "L", ":", "\"", "~", NUL, "|", "Z", "X", "C", "V",
       "B", "N", "M", "<", ">", "?", NUL, NUL, NUL, " " >>

ascii_shift_capslock ==
    << NUL, "?", "!", "@", "#", "$", "%", "^", "&", "*", "(", ")", "_", "+", "BS", "TAB",
       "q", "w", "e", "r", "t", "y", "u", "i", "o", "p", "{", "}", "NL", NUL, "a", "s",
       "d", "f", "g", "h", "j", "k", "l", ":", "\"", "~", NUL, "|", "z", "x", "c", "v",
       "b", "n", "m", "<", ">", "?", NUL, NUL, NUL, " " >>

ascii_nomod ==
    << NUL, "?", "1", "2", "3", "4", "5", "6", "7", "8", "9", "0", "-", "=", "BS", "TAB",
       "q", "w", "e", "r", "t", "y", "u", "i", "o", "p", "[", "]", "NL", NUL, "a", "s",
       "d", "f", "g", "h", "j", "k", "l", ";", "'", "GRAVE", NUL, "\\", "z", "x", "c", "v",
       "b", "n", "m", ",", ".", "/", NUL, NUL, NUL, " " >>

\* lines 145-153: the table the modifiers select
Table(caps, shift) ==
    IF caps = 0 /\ shift = 0 THEN ascii_nomod
    ELSE IF caps = 0 /\ shift # 0 THEN ascii_shift
    ELSE IF caps # 0 /\ shift # 0 THEN ascii_shift_capslock
    ELSE ascii_capslock

\* table[input_byte] reads inside the array
InTable(table, input_byte) == input_byte < Len(table)

\* what a read past the end of a table can yield: whatever byte the linker
\* placed there
Stray == {NUL, "NL", "x"}

\* lines 146-153: c = table[input_byte], the set of values c can take
Lookup(table, input_byte) ==
    IF InTable(table, input_byte) THEN {table[input_byte + 1]} ELSE Stray

\* lines 123-157: the exit the handler takes for a scancode
Path(input_byte, ctrl) ==
    IF ctrl # 0 /\ input_byte = 46 THEN "swallow"
    ELSE IF input_byte = CAPSLOCK THEN "caps"
    ELSE IF input_byte \in {LEFT_SHIFT, RIGHT_SHIFT, LEFT_SHIFT_REL, RIGHT_SHIFT_REL}
         THEN "shift"
    ELSE IF input_byte \in {LEFT_CTRL, LEFT_CTRL_REL} THEN "ctrl"
    ELSE IF input_byte < MAX_CODE THEN "char"
    ELSE "nocode"

\* x = !x
Not(x) == IF x = 0 THEN 1 ELSE 0

\* the part of the keyboard state the character switch works on
Bufs == [kbd_buf |-> kbd_buf, kbd_buf_i |-> kbd_buf_i, big_buf |-> big_buf,
         big_buf_i |-> big_buf_i, tty |-> <<>>]

\* if (termios.c_lflag & ECHO) tty_putchar(...)
Echo(lflag, out) == IF "ECHO" \in lflag THEN out ELSE <<>>

\* lines 191-196, label regular_character
regular_character_unchecked(st, c, lflag) ==
    [st EXCEPT !.kbd_buf = [j \in DOMAIN st.kbd_buf \cup {st.kbd_buf_i} |->
                               IF j = st.kbd_buf_i THEN c ELSE st.kbd_buf[j]],
               !.kbd_buf_i = @ + 1,
               !.tty = st.tty \o Echo(lflag, <<c>>)]

regular_character(st, c, lflag) ==
    IF st.kbd_buf_i = KBD_BUF_SIZE THEN st
    ELSE [st EXCEPT !.kbd_buf = [@ EXCEPT ![st.kbd_buf_i] = c],
                    !.kbd_buf_i = @ + 1,
                    !.tty = st.tty \o Echo(lflag, <<c>>)]

\* lines 169-173: copy kbd_buf[i..] to the end of big_buf until it is full
RECURSIVE CopyLine(_, _)
CopyLine(st, i) ==
    IF i >= st.kbd_buf_i \/ st.big_buf_i = BIG_BUF_SIZE THEN st
    ELSE CopyLine([st EXCEPT !.big_buf = [@ EXCEPT ![st.big_buf_i] = st.kbd_buf[i]],
                             !.big_buf_i = @ + 1],
                  i + 1)

\* lines 161-175, case '\n' in canonical mode; the break of line 165 leaves
\* the switch and reaches regular_character
newline_keepPending(st, lflag) ==
    IF st.kbd_buf_i = KBD_BUF_SIZE THEN regular_character(st, "NL", lflag)
    ELSE CopyLine(regular_character(st, "NL", lflag), 0)

newline(st, lflag) ==
    IF st.kbd_buf_i = KBD_BUF_SIZE THEN regular_character(st, "NL", lflag)
    ELSE [CopyLine(regular_character(st, "NL", lflag), 0) EXCEPT !.kbd_buf_i = 0]

\* lines 176-187, case '\b' in canonical mode; the break of line 180 leaves
\* the switch and reaches regular_character
backspace(st, lflag) ==
    IF st.kbd_buf_i = 0 THEN regular_character(st, "BS", lflag)
    ELSE [st EXCEPT !.kbd_buf = [@ EXCEPT ![st.kbd_buf_i - 1] = NUL],
                    !.kbd_buf_i = @ - 1,
                    !.tty = st.tty \o Echo(lflag, <<"BS", " ", "BS">>)]

\* lines 160-196: switch (c)
Switch_commitEveryChar(st, c, lflag) ==
    IF c = "BS" /\ "ICANON" \in lflag THEN backspace(st, lflag)
    ELSE IF "ICANON" \in lflag
    THEN [CopyLine(regular_character(st, c, lflag), 0) EXCEPT !.kbd_buf_i = 0]
    ELSE regular_character(st, c, lflag)

Switch(st, c, lflag) ==
    IF c = "NL" /\ "ICANON" \in lflag THEN newline(st, lflag)
    ELSE IF c = "BS" /\ "ICANON" \in lflag THEN backspace(st, lflag)
    ELSE regular_character(st, c, lflag)

\* the handler is spinning on a lock: on the single CPU nothing else runs
Spinning == {"spin_kbd_read_lock", "spin_termios_lock"}

\* the number of keyboard interrupts of a behaviour
MaxKeys == 4

\* lines 118-201
kbd_handler(input_byte) ==
    /\ irq.state \notin Spinning
    /\ Len(keys) < MaxKeys
    /\ keys' = Append(keys, input_byte)
    /\ IF kbd_read_lock = 0
       THEN \* line 121: spinlock_acquire cannot succeed
            /\ irq' = Irq("spin_kbd_read_lock", "none", NUL, <<>>)
            /\ UNCHANGED <<kbd_buf, kbd_buf_i, big_buf, big_buf_i, capslock_active,
                           shift_active, ctrl_active, kbd_read_lock, termios_lock>>
       ELSE LET path == Path(input_byte, ctrl_active) IN
            IF path # "char"
            THEN /\ capslock_active' =
                        IF path = "caps" THEN Not(capslock_active) ELSE capslock_active
                 /\ shift_active' =
                        IF path = "shift" THEN Not(shift_active) ELSE shift_active
                 /\ ctrl_active' =
                        IF path = "ctrl" THEN Not(ctrl_active) ELSE ctrl_active
                 /\ termios_lock' = 1    \* label out, line 198
                 /\ kbd_read_lock' = 1
                 /\ irq' = Irq("done", path, NUL, <<>>)
                 /\ UNCHANGED <<kbd_buf, kbd_buf_i, big_buf, big_buf_i>>
            ELSE \E c \in Lookup(Table(capslock_active, shift_active), input_byte) :
                 IF termios_lock = 0
                 THEN \* line 159: spinlock_acquire cannot succeed
                      /\ kbd_read_lock' = 0
                      /\ irq' = Irq("spin_termios_lock", path, c, <<>>)
                      /\ UNCHANGED <<kbd_buf, kbd_buf_i, big_buf, big_buf_i,
                                     capslock_active, shift_active, ctrl_active,
                                     termios_lock>>
                 ELSE LET st == Switch(Bufs, c, termios) IN
                      /\ kbd_buf' = st.kbd_buf
                      /\ kbd_buf_i' = st.kbd_buf_i
                      /\ big_buf' = st.big_buf
                      /\ big_buf_i' = st.big_buf_i
                      /\ termios_lock' = 1
                      /\ kbd_read_lock' = 1
                      /\ irq' = Irq("done", path, c, st.tty)
                      /\ UNCHANGED <<capslock_active, shift_active, ctrl_active>>
    /\ UNCHANGED <<termios, rd>>
    /\ UNCHANGED <<filesystems, mountpoints, vfs_handles, mountpoints_lock, errno,
                   last, args, res, pc, syncv>>

-----------------------------------------------------------------------------
(* kbd_read, lines 64-116, one step per lock operation, yield and loop       *)
(* iteration; pc names the line the thread is about to execute.              *)

MaxCount == 2

Reader(p, count, i, wait, buf, ret) ==
    [pc |-> p, count |-> count, i |-> i, wait |-> wait, buf |-> buf, ret |-> ret]

\* a thread outside kbd_read; ret is the value its last call returned, -1
\* before its first return
IdleReader == Reader("idle", 0, 0, 1, <<>>, -1)

\* the threads that hold kbd_read_lock, by their position
HoldsKbdRead(t) == rd[t].pc \in {"l73", "l92"}

Running(t) == t \in DOMAIN rd /\ irq.state \notin Spinning

KbdFrame == UNCHANGED <<filesystems, mountpoints, vfs_handles, mountpoints_lock,
                        errno, last, args, res, pc, syncv, termios, irq, keys,
                        capslock_active, shift_active, ctrl_active>>

\* lines 64-65: the call
kbd_read(t, count) ==
    /\ Running(t)
    /\ rd[t].pc = "idle"
    /\ rd' = [rd EXCEPT ![t] = Reader("l67", count, 0, 1, <<>>, rd[t].ret)]
    /\ UNCHANGED <<kbd_buf, kbd_buf_i, big_buf, big_buf_i, kbd_read_lock, termios_lock>>
    /\ KbdFrame

\* line 67: spinlock_acquire(&termios_lock), spinning while it is held
acquire_termios(t) ==
    /\ Running(t)
    /\ rd[t].pc = "l67"
    /\ termios_lock = 1
    /\ termios_lock' = 0
    /\ rd' = [rd EXCEPT ![t].pc = "l68"]
    /\ UNCHANGED <<kbd_buf, kbd_buf_i, big_buf, big_buf_i, kbd_read_lock>>
    /\ KbdFrame

\* lines 68-69 and 87: the mode is read and termios_lock released
read_lflag(t) ==
    /\ Running(t)
    /\ rd[t].pc = "l68"
    /\ termios_lock' = 1
    /\ rd' = [rd EXCEPT ![t].pc = IF "ICANON" \notin termios THEN "l71" ELSE "l89"]
    /\ UNCHANGED <<kbd_buf, kbd_buf_i, big_buf, big_buf_i, kbd_read_lock>>
    /\ KbdFrame

\* while (!spinlock_test_and_acquire(&kbd_read_lock)) yield(10);
\* at lines 71-72, 89-91 and 104-106
test_and_acquire_always(t, at, got, yielding) ==
    /\ Running(t)
    /\ rd[t].pc = at
    /\ kbd_read_lock' = 0
    /\ rd' = [rd EXCEPT ![t].pc = got]
    /\ UNCHANGED <<kbd_buf, kbd_buf_i, big_buf, big_buf_i, termios_lock>>
    /\ KbdFrame

test_and_acquire(t, at, got, yielding) ==
    /\ Running(t)
    /\ rd[t].pc = at
    /\ IF kbd_read_lock = 1
       THEN kbd_read_lock' = 0 /\ rd' = [rd EXCEPT ![t].pc = got]
       ELSE kbd_read_lock' = kbd_read_lock /\ rd' = [rd EXCEPT ![t].pc = yielding]
    /\ UNCHANGED <<kbd_buf, kbd_buf_i, big_buf, big_buf_i, termios_lock>>
    /\ KbdFrame

\* the positions inside yield(10) and where the thread resumes
Resume == [l72 |-> "l71", l75 |-> "l71", l90 |-> "l89", l103 |-> "l104",
           l105 |-> "l104"]
Yields == DOMAIN Resume

\* yield(10) returns
yield(t) ==
    /\ Running(t)
    /\ rd[t].pc \in Yields
    /\ rd' = [rd EXCEPT ![t].pc = Resume[rd[t].pc]]
    /\ UNCHANGED <<kbd_buf, kbd_buf_i, big_buf, big_buf_i, kbd_read_lock, termios_lock>>
    /\ KbdFrame

\* lines 73-85: the non-canonical read takes the whole of kbd_buf
raw_read(t) ==
    /\ Running(t)
    /\ rd[t].pc = "l73"
    /\ kbd_read_lock' = 1
    /\ IF kbd_buf_i = 0
       THEN /\ rd' = [rd EXCEPT ![t].pc = "l75"]
            /\ UNCHANGED <<kbd_buf, kbd_buf_i>>
       ELSE /\ rd' = [rd EXCEPT ![t] = Reader("idle", rd[t].count, kbd_buf_i, rd[t].wait,
                                              [j \in 1..kbd_buf_i |-> kbd_buf[j - 1]],
                                              kbd_buf_i)]
            /\ kbd_buf' = [j \in DOMAIN kbd_buf |->
                              IF j < kbd_buf_i THEN NUL ELSE kbd_buf[j]]
            /\ kbd_buf_i' = 0
    /\ UNCHANGED <<big_buf, big_buf_i, termios_lock>>
    /\ KbdFrame

\* lines 96-98: big_buf[j] = big_buf[j+1] for j < n
ShiftDown(buf, n) == [j \in DOMAIN buf |-> IF j < n THEN buf[j + 1] ELSE buf[j]]

\* lines 92-115: one iteration of the canonical read's loop
canon_read_noWait(t) ==
    /\ Running(t)
    /\ rd[t].pc = "l92"
    /\ kbd_read_lock' = 1
    /\ rd' = [rd EXCEPT ![t].pc = "idle", ![t].ret = rd[t].i]
    /\ UNCHANGED <<big_buf, big_buf_i>>
    /\ UNCHANGED <<kbd_buf, kbd_buf_i, termios_lock>>
    /\ KbdFrame

canon_read(t) ==
    /\ Running(t)
    /\ rd[t].pc = "l92"
    /\ IF rd[t].i >= rd[t].count
       THEN \* lines 114-115
            /\ kbd_read_lock' = 1
            /\ rd' = [rd EXCEPT ![t].pc = "idle", ![t].ret = rd[t].count]
            /\ UNCHANGED <<big_buf, big_buf_i>>
       ELSE IF big_buf_i # 0
       THEN \* lines 94-99
            /\ rd' = [rd EXCEPT ![t].buf = Append(@, big_buf[0]), ![t].i = @ + 1,
                                ![t].wait = 0]
            /\ big_buf_i' = big_buf_i - 1
            /\ big_buf' = ShiftDown(big_buf, big_buf_i - 1)
            /\ UNCHANGED kbd_read_lock
       ELSE IF rd[t].wait # 0
       THEN \* lines 102-103
            /\ kbd_read_lock' = 1
            /\ rd' = [rd EXCEPT ![t].pc = "l103"]
            /\ UNCHANGED <<big_buf, big_buf_i>>
       ELSE \* lines 108-109
            /\ kbd_read_lock' = 1
            /\ rd' = [rd EXCEPT ![t].pc = "idle", ![t].ret = rd[t].i]
            /\ UNCHANGED <<big_buf, big_buf_i>>
    /\ UNCHANGED <<kbd_buf, kbd_buf_i, termios_lock>>
    /\ KbdFrame

\* one step of thread t inside kbd_read
kbd_read_step(t) ==
    \/ acquire_termios(t)
    \/ read_lflag(t)
    \/ test_and_acquire(t, "l71", "l73", "l72")
    \/ raw_read(t)
    \/ test_and_acquire(t, "l89", "l92", "l90")
    \/ canon_read(t)
    \/ test_and_acquire(t, "l104", "l92", "l105")
    \/ yield(t)

-----------------------------------------------------------------------------
(* Keyboard specifications.  SpecKbd: one reading thread and the keys of a   *)
(* line editor.  SpecIrq: two reading threads, a character, newline, a      *)
(* modifier and a scancode without a character.  Both run without ECHO,     *)
(* which only adds calls of tty_putchar; SpecKey runs with and without it.  *)

NoVfs ==
    /\ filesystems = <<>>
    /\ mountpoints = <<>>
    /\ vfs_handles = <<>>
    /\ mountpoints_lock = 1
    /\ errno = 0
    /\ last = NoLast
    /\ SyncIdle
    /\ args = NULL
    /\ res = NULL

\* scancodes of 'a', 'b', backspace and enter
EditKeys == {30, 48, 14, 28}

\* scancodes of 'a', enter, left shift and the first code past the tables
IrqKeys == {30, 28, LEFT_SHIFT, MAX_CODE}

Counts == 1..MaxCount

InitKbd ==
    /\ NoVfs
    /\ pc = "kbd"
    /\ KbdBoot
    /\ termios \in {{}, {"ICANON"}}
    /\ rd = [t \in {"t1"} |-> IdleReader]

NextKbd ==
    \/ \E b \in EditKeys : kbd_handler(b)
    \/ \E t \in DOMAIN rd, count \in Counts : kbd_read(t, count)
    \/ \E t \in DOMAIN rd : kbd_read_step(t)

SpecKbd == InitKbd /\ [][NextKbd]_vars

\* the number of keyboard interrupts of a behaviour of SpecIrq
MaxIrqs == 2

InitIrq ==
    /\ NoVfs
    /\ pc = "irq"
    /\ KbdBoot
    /\ termios \in {{}, {"ICANON"}}
    /\ rd = [t \in {"t1", "t2"} |-> IdleReader]

NextIrq ==
    \/ \E b \in IrqKeys : Len(keys) < MaxIrqs /\ kbd_handler(b)
    \/ \E t \in DOMAIN rd, count \in Counts : kbd_read(t, count)
    \/ \E t \in DOMAIN rd : kbd_read_step(t)

SpecIrq == InitIrq /\ [][NextIrq]_vars

-----------------------------------------------------------------------------
(* Path vocabulary of the claims *)

IsPrefix(t, s) == Len(t) <= Len(s) /\ SubSeq(s, 1, Len(t)) = t

\* the segments of s between '/' separators (empty segments included)
RECURSIVE Split(_, _, _)
Split(s, i, cur) ==
    IF i > Len(s) THEN <<cur>>
    ELSE IF s[i] = "/" THEN <<cur>> \o Split(s, i + 1, <<>>)
    ELSE Split(s, i + 1, Append(cur, s[i]))

Segments(s) == Split(s, 1, <<>>)

Dot == <<".">>
DotDot == <<".", ".">>

\* absolute, no "//", no "." or ".." segment, no trailing '/' unless "/"
WellFormed(s) ==
    /\ Len(s) > 0
    /\ s[1] = "/"
    /\ \A i \in 1..Len(s) - 1 : ~(s[i] = "/" /\ s[i + 1] = "/")
    /\ \A k \in DOMAIN Segments(s) : Segments(s)[k] \notin {Dot, DotDot}
    /\ (s[Len(s)] = "/" => Len(s) = 1)

\* the reference normalizer: a stack of segments
RECURSIVE Fold(_, _, _)
Fold(segs, k, stack) ==
    IF k > Len(segs) THEN stack
    ELSE LET g == segs[k] IN
         IF g = <<>> \/ g = Dot THEN Fold(segs, k + 1, stack)
         ELSE IF g = DotDot
         THEN Fold(segs, k + 1,
                   IF stack = <<>> THEN stack ELSE SubSeq(stack, 1, Len(stack) - 1))
         ELSE Fold(segs, k + 1, Append(stack, g))

RECURSIVE Join(_, _)
Join(stack, k) ==
    IF k > Len(stack) THEN <<>> ELSE <<"/">> \o stack[k] \o Join(stack, k + 1)

RefNormalize(pwd, path) ==
    LET start == IF At(path, 0) = "/" THEN <<>>
                 ELSE SelectSeq(Segments(pwd), LAMBDA g : g # <<>>)
        stack == Fold(Segments(path), 1, start)
    IN IF stack = <<>> THEN <<"/">> ELSE Join(stack, 1)

-----------------------------------------------------------------------------
(* Claims *)

\* C1: when the driver's close fails, close returns -1 and the entry at fd
\* is still present in the handle table.
C1_EntryKeptOnCloseFailure ==
    (last.op = "close" /\ last.calls[1].ret # 0) =>
        (last.ret = -1 /\ last.fd \in Open(vfs_handles))

\* C2: after a dup whose driver dup returned internal fd n, the new handle
\* record has the same driver and intern_fd = n.
C2_DupRecordsNewInternFd ==
    (last.op = "dup" /\ last.calls[1].ret # -1 /\ last.added # <<>> /\ last.added[1] # -1) =>
        /\ vfs_handles[last.added[1]].fs = last.calls[1].fs
        /\ vfs_handles[last.added[1]].intern_fd = last.calls[1].ret

\* C3: an open whose driver open succeeded but whose handle record could not
\* be installed closes the internal fd, returns -1 and creates no
\* file-descriptor-table entry.
C3_OpenRollsBack ==
    (last.op = "open" /\ last.added # <<>> /\ last.added[1] = -1) =>
        /\ last.ret = -1
        /\ last.created = <<>>
        /\ \E k \in DOMAIN last.calls :
              /\ last.calls[k].op = "close"
              /\ last.calls[k].fs = last.calls[1].fs
              /\ last.calls[k].arg = last.calls[1].ret

DispatchOps == {"read", "write", "lseek", "fstat", "dup", "readdir"}

\* an entry point other than close acting on handle fd calls the function
\* of that name of the handle's driver with the handle's intern_fd, once,
\* and leaves the handle's reference count as it was
DispatchedWithInternFd ==
    last'.op \in DispatchOps =>
        LET fd == last'.fd IN
        /\ Len(last'.calls) = 1
        /\ last'.calls[1].fs = vfs_handles[fd].fs
        /\ last'.calls[1].op = last'.op
        /\ last'.calls[1].fn = filesystems[vfs_handles[fd].fs][last'.op]
        /\ last'.calls[1].arg = vfs_handles[fd].intern_fd
        /\ vfs_handles'[fd] = vfs_handles[fd]

\* the handle a successful open installs holds the mountpoint's driver and
\* the internal fd its open returned, and a handle keeps both while it exists
HandleHoldsOpenResult ==
    /\ (last'.op = "open" /\ last'.added # <<>> /\ last'.added[1] # -1) =>
          /\ vfs_handles'[last'.added[1]].fs = last'.calls[1].fs
          /\ vfs_handles'[last'.added[1]].intern_fd = last'.calls[1].ret
          /\ vfs_handles'[last'.added[1]].refcount = 1
    /\ \A i \in HandleIdx :
          (vfs_handles[i].used /\ vfs_handles'[i].used) =>
              /\ vfs_handles'[i].fs = vfs_handles[i].fs
              /\ vfs_handles'[i].intern_fd = vfs_handles[i].intern_fd

\* C4 as stated: every one of read, write, lseek, fstat, dup and readdir
\* calls the driver with the internal fd of the open, returns the driver
\* function's result and leaves the reference count unchanged.
C4_DispatchReturnsDriverResult ==
    [][ /\ HandleHoldsOpenResult
        /\ DispatchedWithInternFd
        /\ (last'.op \in DispatchOps => last'.ret = last'.calls[1].ret) ]_vars

\* C4 amended: as stated for read, write, lseek, fstat and readdir; dup
\* returns -1 when the driver's dup returned -1 and otherwise the result of
\* inserting the new handle record (its index, or -1).
C4_Dispatch ==
    [][ /\ HandleHoldsOpenResult
        /\ DispatchedWithInternFd
        /\ (last'.op \in DispatchOps \ {"dup"} => last'.ret = last'.calls[1].ret)
        /\ (last'.op = "dup" =>
               last'.ret = IF last'.calls[1].ret = -1 THEN -1 ELSE last'.added[1]) ]_vars

\* a read on an open handle of fsB with internal fd 5 was passed 5 and
\* returned the driver's 3
C4_Witness ==
    /\ last.op = "read"
    /\ last.calls[1].fs = "fsB"
    /\ last.calls[1].fn = OwnFn("fsB", "read")
    /\ last.calls[1].arg = 5
    /\ last.ret = 3
    /\ vfs_handles[last.fd].refcount = 1

\* C7: vfs_get_mountpoint has released mountpoints_lock whenever open returns.
C7_LockReleasedOnReturn ==
    last.op = "open" => mountpoints_lock = 1

\* C10: after registration every slot that was unset is the ENOSYS sentinel,
\* every slot that was set is still the driver's own function, and invoking
\* an unset operation returns -1 with errno = ENOSYS.
C10_Sentinels ==
    /\ \A d \in Registered, op \in OpNames :
          filesystems[d][op] = IF op \in args.set THEN OwnFn(d, op) ELSE InvalidFn
    /\ (last.op = "invoke" /\ last.calls[1].op \notin args.set) =>
          (last.ret = -1 /\ errno = ENOSYS)
    /\ (last.op = "invoke" /\ last.calls[1].op \in args.set) =>
          last.calls[1].fn = OwnFn(args.d, last.calls[1].op)

\* a driver registered with open and close only: read gives -1 and ENOSYS
C10_Witness ==
    /\ args.set = {"open", "close"}
    /\ last.op = "invoke"
    /\ last.calls[1].op = "read"
    /\ last.calls[1].fn = InvalidFn
    /\ last.ret = -1
    /\ errno = ENOSYS

\* a record qualifies for path P: its target is a prefix of P ending where P
\* has '/' or ends, or its target is "/"
Qualifies(name, P) ==
    /\ IsPrefix(name, P)
    /\ \/ Len(name) = Len(P)
       \/ P[Len(name) + 1] = "/"
       \/ name = <<"/">>

QualifyingRecords == { i \in 1..Len(mountpoints) : Qualifies(mountpoints[i].name, args.path) }

\* C5: vfs_get_mountpoint returns the qualifying record with the longest
\* target_path, and NULL when no record qualifies.
C5_LongestPrefix ==
    pc = "done" =>
        IF QualifyingRecords = {} THEN res.ret = 0
        ELSE /\ res.ret \in QualifyingRecords
             /\ \A j \in QualifyingRecords :
                    Len(mountpoints[j].name) <= Len(mountpoints[res.ret].name)

\* mounts "/", "/u", "/u/l": "/u/l/u" resolves to "/u/l"
C5_Witness ==
    /\ pc = "done"
    /\ Len(mountpoints) = 3
    /\ { mountpoints[i].name : i \in 1..3 } = { <<"/">>, <<"/", "u">>, <<"/", "u", "/", "l">> }
    /\ args.path = <<"/", "u", "/", "l", "/", "u">>
    /\ res.ret # 0
    /\ mountpoints[res.ret].name = <<"/", "u", "/", "l">>

\* C6: the local path is the part of P after the matched target, "/" when
\* that part is empty, and P itself for the root mount.
C6_LocalPath ==
    (pc = "done" /\ res.ret # 0) =>
        LET T == mountpoints[res.ret].name
            rest == SubSeq(args.path, Len(T) + 1, Len(args.path))
        IN res.local_path = IF T = <<"/">> THEN args.path
                            ELSE IF rest = <<>> THEN <<"/">> ELSE rest

\* resolve("/u/l") under mount "/u" gives "/l"
C6_Witness ==
    /\ pc = "done"
    /\ res.ret # 0
    /\ mountpoints[res.ret].name = <<"/", "u">>
    /\ args.path = <<"/", "u", "/", "l">>
    /\ res.local_path = <<"/", "l">>

\* C8 as stated: for every absolute cwd the result is well-formed.
C8_WellFormedAnyCwd ==
    pc = "done" => WellFormed(res)

\* C8 amended: for every normalized absolute cwd (and every input and prior
\* buffer content) the result is absolute, has no "//", no "." or ".."
\* segment and no trailing '/' unless it is "/".
C8_WellFormed ==
    (pc = "done" /\ WellFormed(args.pwd)) => WellFormed(res)

C8_Witness ==
    /\ pc = "done"
    /\ args.pwd = <<"/", "a">>
    /\ args.path = <<".", ".", "/", "a">>
    /\ res = <<"/", "a">>

\* C9: for every normalized cwd, input and prior buffer content the result
\* is the reference normalizer's.
C9_EqualsReference ==
    (pc = "done" /\ WellFormed(args.pwd)) => res = RefNormalize(args.pwd, args.path)

\* the same with the output buffer zero-filled at the call
C9_EqualsReferenceZeroed ==
    (pc = "done" /\ WellFormed(args.pwd) /\ \A i \in DOMAIN args.prior : args.prior[i] = NUL)
        => res = RefNormalize(args.pwd, args.path)

-----------------------------------------------------------------------------
(* Decoding specification: one handler invocation for every scancode in     *)
(* every state of the modifiers.                                            *)

ScanCodes == 0..255

InitKey ==
    /\ NoVfs
    /\ pc = "key"
    /\ KbdBuffersBoot
    /\ capslock_active \in {0, 1}
    /\ shift_active \in {0, 1}
    /\ ctrl_active \in {0, 1}
    /\ termios \in SUBSET {"ICANON", "ECHO"}
    /\ rd = <<>>

NextKey == \E b \in ScanCodes : keys = <<>> /\ kbd_handler(b)

SpecKey == InitKey /\ [][NextKey]_vars

-----------------------------------------------------------------------------
(* Keyboard vocabulary of the claims *)

Canonical == "ICANON" \in termios

\* the invocation of kbd_handler this step is, run to its return
Handled == keys' # keys /\ irq'.state = "done"

\* the characters typed so far in SpecKbd, whose keys are all decoded by
\* ascii_nomod
Typed == [j \in 1..Len(keys) |-> ascii_nomod[keys[j] + 1]]

\* the first n bytes of a buffer
Bytes(buf, n) == [j \in 1..n |-> buf[j - 1]]

\* the position of the last newline typed, 0 if there is none
LastNL(w) == IF \E j \in 1..Len(w) : w[j] = "NL"
             THEN CHOOSE j \in 1..Len(w) : w[j] = "NL" /\ \A k \in (j + 1)..Len(w) : w[k] # "NL"
             ELSE 0

\* the line a sequence of characters and backspaces edits to
RECURSIVE EditLine(_)
EditLine(w) ==
    IF w = <<>> THEN <<>>
    ELSE LET e == EditLine(SubSeq(w, 1, Len(w) - 1))
             c == w[Len(w)]
         IN  IF c = "BS" THEN SubSeq(e, 1, Len(e) - 1) ELSE Append(e, c)

\* w holds no newline, each of its backspaces has a character to erase, the
\* line never outgrows kbd_buf and leaves room for the newline
Editable(w) ==
    /\ \A k \in 1..Len(w) :
         /\ w[k] # "NL"
         /\ w[k] = "BS" => EditLine(SubSeq(w, 1, k - 1)) # <<>>
         /\ Len(EditLine(SubSeq(w, 1, k))) <= KBD_BUF_SIZE
    /\ Len(EditLine(w)) < KBD_BUF_SIZE

-----------------------------------------------------------------------------
(* Claims of the keyboard *)

\* C11: in canonical mode a handler invocation changes big_buf and big_buf_i
\* only when it decoded a newline, kbd_read takes its bytes from the head of
\* big_buf only, and the bytes read or waiting in big_buf never outnumber
\* the characters typed up to the last newline: with no newline typed,
\* big_buf_i is 0 and no read has delivered a byte or returned
C11_CommitOnlyOnNewline ==
    [][Canonical =>
         /\ (keys' # keys /\ irq'.c # "NL") => UNCHANGED <<big_buf, big_buf_i>>
         /\ \A t \in DOMAIN rd :
              /\ rd'[t].buf \in {rd[t].buf, <<>>}
                    \/ (big_buf_i > 0 /\ rd'[t].buf = Append(rd[t].buf, big_buf[0]))
              /\ Len(rd'[t].buf) + big_buf_i' <= LastNL(Typed')
              /\ LastNL(Typed') = 0 => rd'[t].ret = -1]_vars

\* 'a', 'b' typed without a newline: nothing is committed and the reader is
\* blocked in the yield of line 103
C11_Witness ==
    /\ Canonical
    /\ Typed = <<"a", "b">>
    /\ kbd_buf_i = 2
    /\ big_buf_i = 0
    /\ rd["t1"].pc = "l103"

\* C12: in canonical mode, from empty buffers, when the characters typed are
\* an editable line w followed by a newline, the invocation that handles the
\* newline leaves big_buf holding EditLine(w) and the newline, big_buf_i
\* their number L and kbd_buf_i 0; and a kbd_read with count >= L that has
\* the whole line before it returns L with those bytes in order and leaves
\* big_buf_i 0
C12_LineRoundTrip ==
    [][(/\ Canonical
        /\ Typed' # <<>>
        /\ Typed'[Len(Typed')] = "NL"
        /\ Editable(SubSeq(Typed', 1, Len(Typed') - 1)))
       => LET line == Append(EditLine(SubSeq(Typed', 1, Len(Typed') - 1)), "NL")
              L == Len(line)
          IN  /\ Handled => /\ big_buf_i' = L
                            /\ Bytes(big_buf', L) = line
                            /\ kbd_buf_i' = 0
              /\ \A t \in DOMAIN rd :
                   (/\ rd[t].pc = "l92"
                    /\ rd'[t].pc = "idle"
                    /\ rd[t].count >= L
                    /\ Len(rd[t].buf) + big_buf_i = L)
                   => /\ rd'[t].ret = L
                      /\ rd'[t].buf = line
                      /\ big_buf_i' = 0]_vars

\* a, b, backspace, newline was typed and a read returned "a\n"
C12_Witness ==
    /\ Canonical
    /\ Typed = <<"a", "b", "BS", "NL">>
    /\ rd["t1"].pc = "idle"
    /\ rd["t1"].ret = 2
    /\ rd["t1"].buf = <<"a", "NL">>
    /\ big_buf_i = 0
    /\ kbd_buf_i = 0

\* C13: in canonical mode a handler invocation that decodes a backspace
\* while kbd_buf_i is 0 changes none of kbd_buf, kbd_buf_i, big_buf, big_buf_i
C13_BackspaceOnEmptyDropped ==
    [][(Canonical /\ Handled /\ irq'.c = "BS" /\ kbd_buf_i = 0)
       => UNCHANGED <<kbd_buf, kbd_buf_i, big_buf, big_buf_i>>]_vars

\* the step takes thread t into a yield(10)
EntersYield(t) == rd[t].pc \notin Yields /\ rd'[t].pc \in Yields

\* the step is thread t's return from kbd_read
Returns(t) == rd[t].pc # "idle" /\ rd'[t].pc = "idle"

\* a canonical kbd_read returns r with 1 <= r <= count, the bytes it
\* delivered; it is in no yield once it has delivered a byte; and with a
\* byte delivered, more wanted and big_buf empty its next step is the return
ReadsAtLeastOne(t) ==
    /\ Returns(t) => /\ 1 <= rd'[t].ret
                     /\ rd'[t].ret <= rd[t].count
                     /\ rd'[t].ret = Len(rd'[t].buf)
    /\ rd'[t].i >= 1 => rd'[t].pc \notin Yields
    /\ (/\ rd'[t] # rd[t]
        /\ rd[t].pc = "l92"
        /\ rd[t].i >= 1
        /\ rd[t].i < rd[t].count
        /\ big_buf_i = 0)
       => (rd'[t].pc = "idle" /\ rd'[t].ret = rd[t].i)

C15_BoundsAndLock ==
    /\ [](kbd_buf_i <= KBD_BUF_SIZE /\ big_buf_i <= BIG_BUF_SIZE)
    /\ [][<<kbd_buf, kbd_buf_i, big_buf, big_buf_i>>' # <<kbd_buf, kbd_buf_i, big_buf, big_buf_i>>
          => \/ Handled /\ kbd_read_lock = 1
             \/ \E t \in DOMAIN rd :
                  /\ rd'[t] # rd[t]
                  /\ HoldsKbdRead(t)
                  /\ kbd_read_lock = 0
                  /\ \A u \in DOMAIN rd \ {t} : ~HoldsKbdRead(u)]_vars

\* kbd_buf is full and a further character has arrived and been left out
C15_Witness ==
    /\ kbd_buf_i = KBD_BUF_SIZE
    /\ Len(keys) = KBD_BUF_SIZE + 1
    /\ \A j \in 1..Len(keys) : keys[j] = 30
    /\ irq.state = "done"

\* the bytes of kbd_buf[0..kbd_buf_i) and a newline
PendingLine == Append(Bytes(kbd_buf, kbd_buf_i), "NL")

\* how many bytes of a line fit at the end of big_buf
Room(line) == IF Len(line) <= BIG_BUF_SIZE - big_buf_i THEN Len(line)
              ELSE BIG_BUF_SIZE - big_buf_i

\* C16: in canonical mode every handler invocation that decodes a newline
\* leaves kbd_buf_i 0 and has appended kbd_buf[0..kbd_buf_i) and the
\* newline to big_buf, as far as big_buf has room, whatever kbd_buf_i was
C16_NewlineCommits ==
    [][(Canonical /\ Handled /\ irq'.c = "NL")
       => /\ kbd_buf_i' = 0
          /\ big_buf_i' = big_buf_i + Room(PendingLine)
          /\ Bytes(big_buf', big_buf_i) = Bytes(big_buf, big_buf_i)
          /\ \A j \in 1..Room(PendingLine) : big_buf'[big_buf_i + j - 1] = PendingLine[j]]_vars

\* C19: a handler invocation that leaves before it decodes a character
\* leaves termios_lock as it found it
C19_TermiosLockUntouched ==
    [][(Handled /\ irq'.path # "char") => termios_lock' = termios_lock]_vars

\* C20: no handler invocation spins on a lock held by the thread it
\* interrupted
C20_HandlerCompletes == irq.state \notin Spinning

\* the step is thread t's return from vfs_sync
SyncReturns(t) == worker[t] = "l149" /\ worker'[t] # "l149"

\* C17: vfs_sync returns with filesystems_lock free, having called the sync
\* of each registered driver exactly once when it had the snapshot, so that
\* the worker's next vfs_sync can take the lock
C17_SyncReleasesLock ==
    [][\A t \in DOMAIN worker :
         SyncReturns(t) =>
           /\ filesystems_lock' = 1
           /\ \/ last'.calls = <<>>
              \/ /\ Len(last'.calls) = Cardinality(Registered)
                 /\ \A d \in Registered :
                      \E k \in 1..Len(last'.calls) : last'.calls[k].fs = d]_vars

\* C18: a handler invocation that decodes a character reads its table
\* inside the array, for every scancode below MAX_CODE and every state of
\* capslock_active and shift_active
C18_LookupInBounds ==
    [][(keys' # keys /\ irq'.path = "char")
       => InTable(Table(capslock_active, shift_active), keys'[Len(keys')])]_vars
====
